---- MODULE Spec2Model ----
(***************************************************************************)
(* cgc -- Cross Goroutine Calls (src/cgc.go).                              *)
(*                                                                         *)
(* An Executor is a Go channel of *Request.  Producer goroutines call      *)
(* Submit / SubmitNoWait, consumer goroutines call RunOnce / RunLoop,      *)
(* which hand each dequeued request to RunOneRequest.  Every blocking      *)
(* point of the code is a select statement; a select with several ready    *)
(* cases picks one of them nondeterministically, so every case of a select *)
(* is an action of its own, enabled exactly when that case is ready.       *)
(*                                                                         *)
(* src/unnamed/part_000 is another revision of the same file (its Submit   *)
(* panics on a closed empty reply channel, its RunOneRequest returns       *)
(* nothing); the model follows src/cgc.go.                                 *)
(*                                                                         *)
(* Specifications: Spec, one producer and one consumer goroutine; FairSpec,*)
(* Spec with weak fairness of both; SpecConsumers, one producer and two    *)
(* consumers; SpecSubmits, two producers in Submit and two consumers in    *)
(* RunLoop.                                                                *)
(***************************************************************************)
EXTENDS Naturals, Sequences, FiniteSets

\* ------------------------------------------------------------------ bounds
\* Requests created in one behaviour.
MaxReq == 2
\* Largest buffer length given to NewBuffered; 0 is New().
MaxCap == 2

\* --------------------------------------------------------------- universes
Producers == {"p1", "p2"}
Consumers == {"k1", "k2"}
Req == 1..MaxReq

\* Contexts made by context.WithCancel.  A context that is never cancelled in
\* a behaviour is what context.Background() is in the code.
Ctx == {"ca", "cb"}
\* The contexts callers submit with; a consumer may run with the same object
\* or with another one.
CallerCtx == {"ca"}
NoCtx == "noctx"

\* The error values the code compares by identity.
ErrNil == "nil"
ErrCanceled == "context.Canceled"
ErrEOF == "io.EOF"
\* interface{} payloads; 0 stands for a nil interface value.
NilVal == 0

result(v, e) == [val |-> v, err |-> e]
\* What the work function of request r may return.  The code never looks at
\* either part, so a value that names the request shows whose result a caller
\* is given; and the only errors the code compares with are context.Canceled
\* and io.EOF, so a work function fails with one of the two, by turns.
ErrOf(r) == IF r % 2 = 1 THEN ErrCanceled ELSE ErrEOF
FuncResults(r) == {result(40 + r, ErrNil), result(NilVal, ErrOf(r))}
\* "nothing returned yet"
NoRet == [val |-> NilVal, err |-> "none"]

VARIABLES
    cap,        \* cap(e): the buffer length the executor was made with
    queue,      \* the requests buffered in the executor channel, oldest first
    eclosed,    \* close(e) has happened
    cancelled,  \* cancelled[c]: c.Done() is closed
    nextId,     \* the next request to be constructed
    rhas,       \* rhas[r]: r.result # nil
    rctx,       \* rctx[r]: r.Context
    rbuf,       \* rbuf[r]: what the reply channel (capacity 1) buffers
    rclosed,    \* rclosed[r]: the reply channel is closed
    ppc,        \* ppc[p]: where producer p stands
    pkind,      \* pkind[p]: the call p is in, or made last
    pctx,       \* pctx[p]: the ctx argument of that call
    preq,       \* preq[p]: the request of that call
    pret,       \* pret[p]: what that call returned
    cpc,        \* cpc[k]: where consumer k stands
    ckind,      \* ckind[k]: what k runs
    cctx,       \* cctx[k]: the ctx argument of k's call
    creq,       \* creq[k]: the request k has dequeued
    cval,       \* cval[k]: (val, err) as r.Func returned them
    cjoin,      \* cjoin[k]: joinedCtx, the context handed to r.Func
    cerr,       \* cerr[k]: what k's RunOnce / RunLoop call returned
    cfcanc,     \* cfcanc[k]: ctx was cancelled when r.Func returned to k
    \* -------- history, read by the properties only
    enqLog,     \* requests in the order the channel accepted them
    invLog,     \* requests in the order r.Func was invoked
    fret,       \* fret[r]: what r.Func returned
    rkctx,      \* rkctx[r]: the ctx RunOneRequest was given for r
    oret,       \* oret[r]: what RunOneRequest returned for r
    nwrite,     \* nwrite[r]: sends on the reply channel
    nclose,     \* nclose[r]: closes of the reply channel
    wac,        \* wac[r]: a send on the reply channel after its close
    pcanc,      \* pcanc[p]: ctx was cancelled when p made its call
    ccanc,      \* ccanc[k]: ctx was cancelled when k made its call
    cdeq,       \* cdeq[k]: requests k dequeued in its current call
    pinq,       \* pinq[p]: p's request sat in the queue when p's call returned
    closedWith  \* the queue as it was when the executor was closed

chanVars == <<cap, queue, eclosed, closedWith>>
reqVars == <<nextId, rhas, rctx>>
replyVars == <<rbuf, rclosed, nwrite, nclose, wac>>
prodVars == <<ppc, pkind, pctx, preq, pret, pcanc, pinq>>
consVars == <<cpc, ckind, cctx, creq, cval, cjoin, cerr, cfcanc, ccanc, cdeq>>
logVars == <<enqLog, invLog, fret, rkctx, oret>>
vars == <<chanVars, cancelled, reqVars, replyVars, prodVars, consVars, logVars>>

NoReq == 0
\* joinedCtx before RunOneRequest has set it.
NoJoin == [obj |-> "none", of |-> {}, released |-> FALSE]

Range(q) == {q[i] : i \in 1..Len(q)}

\* New() / NewBuffered(bufferLength)
NewBuffered(n) ==
    /\ cap = n
    /\ queue = <<>>
    /\ eclosed = FALSE
    /\ closedWith = <<>>

Init ==
    /\ \E n \in 0..MaxCap : NewBuffered(n)
    /\ cancelled = [c \in Ctx |-> FALSE]
    /\ nextId = 1
    /\ rhas = [r \in Req |-> FALSE]
    /\ rctx = [r \in Req |-> NoCtx]
    /\ rbuf = [r \in Req |-> <<>>]
    /\ rclosed = [r \in Req |-> FALSE]
    /\ ppc = [p \in Producers |-> "idle"]
    /\ pkind = [p \in Producers |-> "none"]
    /\ pctx = [p \in Producers |-> NoCtx]
    /\ preq = [p \in Producers |-> NoReq]
    /\ pret = [p \in Producers |-> NoRet]
    /\ cpc = [k \in Consumers |-> "idle"]
    /\ ckind = [k \in Consumers |-> "none"]
    /\ cctx = [k \in Consumers |-> NoCtx]
    /\ creq = [k \in Consumers |-> NoReq]
    /\ cval = [k \in Consumers |-> NoRet]
    /\ cjoin = [k \in Consumers |-> NoJoin]
    /\ cerr = [k \in Consumers |-> "none"]
    /\ cfcanc = [k \in Consumers |-> FALSE]
    /\ enqLog = <<>>
    /\ invLog = <<>>
    /\ fret = [r \in Req |-> NoRet]
    /\ rkctx = [r \in Req |-> NoCtx]
    /\ oret = [r \in Req |-> "none"]
    /\ nwrite = [r \in Req |-> 0]
    /\ nclose = [r \in Req |-> 0]
    /\ wac = [r \in Req |-> FALSE]
    /\ pcanc = [p \in Producers |-> FALSE]
    /\ ccanc = [k \in Consumers |-> FALSE]
    /\ cdeq = [k \in Consumers |-> 0]
    /\ pinq = [p \in Producers |-> FALSE]


\* ------------------------------------------------------- channel semantics
\* A channel whose buffer takes whatever is sent.
CanBufferUnbounded == ~eclosed

\* A send on the executor channel can complete into the buffer.
CanBuffer == ~eclosed /\ Len(queue) < cap

\* Consumer k is blocked in a receive on the executor channel.
Receiving(k) == cpc[k] \in {"select", "brecv"}

\* A receive on the executor channel yields a request.
CanRecv == queue # <<>>

\* A receive that leaves the request it yields in the channel.
ChanRecvPeek == [req |-> Head(queue), rest |-> queue]

\* A channel that hands out its newest element.
ChanRecvLast ==
    [req |-> queue[Len(queue)], rest |-> SubSeq(queue, 1, Len(queue) - 1)]

\* What a receive on the executor channel yields, and leaves: first in,
\* first out.
ChanRecv == [req |-> Head(queue), rest |-> Tail(queue)]

\* A receive that reports a closed channel while requests are buffered.
RecvClosedEarly == eclosed

\* A receive on the executor channel yields (nil, false): closed and drained.
RecvClosed == eclosed /\ queue = <<>>

\* A receive on the reply channel of r is ready: a buffered result, or closed.
ReplyReady(r) == rbuf[r] # <<>> \/ rclosed[r]

\* ctx.Done() is ready.
Done(c) == cancelled[c]

\* ------------------------------------------------------------- environment
\* Context c exists: callers submit with it, or a consumer runs with it or may
\* yet be started with it.  A context nobody holds is cancelled by nobody.
InUse(c) == c \in CallerCtx \/ \A k \in Consumers : ckind[k] = "none" \/ cctx[k] = c

\* A cancel() that also withdraws the requests submitted with the context.
CancelRetracts(c) ==
    /\ InUse(c)
    /\ ~cancelled[c]
    /\ cancelled' = [cancelled EXCEPT ![c] = TRUE]
    /\ queue' = SelectSeq(queue, LAMBDA r : rctx[r] # c)
    /\ UNCHANGED <<cap, eclosed, closedWith, reqVars, replyVars, prodVars, consVars, logVars>>

\* cancel() of a context made by context.WithCancel
Cancel(c) ==
    /\ InUse(c)
    /\ ~cancelled[c]
    /\ cancelled' = [cancelled EXCEPT ![c] = TRUE]
    /\ UNCHANGED <<chanVars, reqVars, replyVars, prodVars, consVars, logVars>>

\* close(ex).  A send on a closed channel panics, so the owner closes the
\* executor only when no producer is sending, and none calls afterwards.
CloseExecutor ==
    /\ ~eclosed
    /\ \A p \in Producers : ppc[p] # "enqueue"
    /\ eclosed' = TRUE
    /\ closedWith' = queue
    /\ UNCHANGED <<cap, queue, cancelled, reqVars, replyVars, prodVars, consVars, logVars>>

\* ---------------------------------------------------------- RunOneRequest
\* A RunOneRequest that hands its own ctx to r.Func whatever r.Context is.
JoinOfConsumerOnly(c, rc) == [obj |-> c, of |-> {c}, released |-> FALSE]

\* The context RunOneRequest hands to r.Func: ctx itself when ctx and
\* r.Context are the same object, else joincontext.Join(ctx, r.Context), a
\* new object that follows both.
JoinOf(c, rc) ==
    IF c # rc
    THEN [obj |-> "joined", of |-> {c, rc}, released |-> FALSE]
    ELSE [obj |-> c, of |-> {c}, released |-> FALSE]

\* joinedCtx.Done() is ready: a context is done when it is cancelled; one made
\* by joincontext.Join is done when either of the two it joins is, or when its
\* own cancel function, joinedCancel, has been called.
FuncDone(j) == j.released \/ \E c \in j.of : Done(c)

\* A RunLoop that stops at io.EOF only.
LoopPcEOFOnly(kind, err) ==
    IF kind = "RunLoop" /\ err # ErrEOF THEN "select" ELSE "done"

\* What a RunOnce that ended with err makes of consumer k: RunOnce returns err;
\* RunLoop returns nil on io.EOF, returns context.Canceled on it, and otherwise
\* calls RunOnce again.
LoopPc(kind, err) ==
    IF kind = "RunLoop" /\ err \notin {ErrEOF, ErrCanceled} THEN "select" ELSE "done"

LoopErr(kind, err) ==
    IF kind = "RunLoop"
    THEN (IF err = ErrEOF THEN ErrNil ELSE IF err = ErrCanceled THEN ErrCanceled ELSE "none")
    ELSE err

\* Consumer k takes request r off the executor channel.  RunOnce passes it to
\* RunOneRequest, which joins the contexts and invokes r.Func; the consumer
\* of TestBrokenResultChan goes on to close r.result.
TakeRequest(k, r) ==
    /\ creq' = [creq EXCEPT ![k] = r]
    /\ cdeq' = [cdeq EXCEPT ![k] = @ + 1]
    /\ IF ckind[k] = "Broken"
       THEN /\ cpc' = [cpc EXCEPT ![k] = "bclose"]
            /\ UNCHANGED <<cjoin, invLog, rkctx>>
       ELSE /\ cpc' = [cpc EXCEPT ![k] = "running"]
            /\ cjoin' = [cjoin EXCEPT ![k] = JoinOf(cctx[k], rctx[r])]
            /\ invLog' = Append(invLog, r)
            /\ rkctx' = [rkctx EXCEPT ![r] = cctx[k]]
    /\ UNCHANGED <<ckind, cctx, cval, cerr, cfcanc, ccanc>>

\* ----------------------------------------------------------------- sending
\* e <- &Request{...}: into the buffer, or, on an unbuffered executor, handed
\* to a consumer that is blocked in its receive.
ChanSend(r) ==
    \/ /\ CanBuffer
       /\ queue' = Append(queue, r)
       /\ enqLog' = Append(enqLog, r)
       /\ UNCHANGED <<consVars, invLog, rkctx>>
    \/ /\ ~eclosed
       /\ cap = 0
       /\ \E k \in Consumers :
            /\ Receiving(k)
            /\ TakeRequest(k, r)
       /\ enqLog' = Append(enqLog, r)
       /\ UNCHANGED queue

\* ---------------------------------------------------------------- producers
\* Each producer goroutine keeps to one context.
NewCall(p, c) ==
    /\ ppc[p] \in {"idle", "done"}
    /\ pctx[p] \in {NoCtx, c}
    /\ nextId <= MaxReq
    /\ ~eclosed

\* Submit(ctx, f) is called: resultChan := make(chan *result, 1), and the
\* request is constructed for the first select.
CallSubmit(p, c) ==
    /\ NewCall(p, c)
    /\ ppc' = [ppc EXCEPT ![p] = "enqueue"]
    /\ pkind' = [pkind EXCEPT ![p] = "Submit"]
    /\ pctx' = [pctx EXCEPT ![p] = c]
    /\ preq' = [preq EXCEPT ![p] = nextId]
    /\ pret' = [pret EXCEPT ![p] = NoRet]
    /\ pcanc' = [pcanc EXCEPT ![p] = cancelled[c]]
    /\ pinq' = [pinq EXCEPT ![p] = FALSE]
    /\ rhas' = [rhas EXCEPT ![nextId] = TRUE]
    /\ rctx' = [rctx EXCEPT ![nextId] = c]
    /\ nextId' = nextId + 1
    /\ UNCHANGED <<chanVars, cancelled, replyVars, consVars, logVars>>

\* Submit, first select, case e <- &Request{...}
SubmitSend(p) ==
    /\ ppc[p] = "enqueue" /\ pkind[p] = "Submit"
    /\ ChanSend(preq[p])
    /\ ppc' = [ppc EXCEPT ![p] = "waitReply"]
    /\ UNCHANGED <<cap, eclosed, closedWith, cancelled, reqVars, replyVars, pkind, pctx, preq, pret, pcanc, pinq, fret, oret>>

\* Submit, first select, case <-ctx.Done()
SubmitSendCanceled(p) ==
    /\ ppc[p] = "enqueue" /\ pkind[p] = "Submit"
    /\ Done(pctx[p])
    /\ ppc' = [ppc EXCEPT ![p] = "done"]
    /\ pret' = [pret EXCEPT ![p] = result(NilVal, ErrCanceled)]
    /\ pinq' = [pinq EXCEPT ![p] = preq[p] \in Range(queue)]
    /\ UNCHANGED <<chanVars, cancelled, reqVars, replyVars, pkind, pctx, preq, pcanc, consVars, logVars>>

\* A Submit that drops the value it received.
SubmitReplyZero(buf) ==
    IF buf # <<>> THEN result(NilVal, buf[1].err) ELSE result(NilVal, ErrCanceled)

\* What Submit returns from r, ok := <-resultChan, given the channel's buffer.
SubmitReply(buf) ==
    IF buf # <<>> THEN result(buf[1].val, buf[1].err) ELSE result(NilVal, ErrCanceled)

\* A Submit that waits on a reply channel shared by all calls.
SubmitRecvAnySlot(p) ==
    /\ ppc[p] = "waitReply"
    /\ \E r \in Req :
         /\ ReplyReady(r)
         /\ pret' = [pret EXCEPT ![p] = SubmitReply(rbuf[r])]
         /\ rbuf' = [rbuf EXCEPT ![r] = <<>>]
    /\ ppc' = [ppc EXCEPT ![p] = "done"]
    /\ pinq' = [pinq EXCEPT ![p] = preq[p] \in Range(queue)]
    /\ UNCHANGED <<chanVars, cancelled, reqVars, rclosed, nwrite, nclose, wac, pkind, pctx, preq, pcanc, consVars, logVars>>

\* Submit, second select, case r, ok := <-resultChan
SubmitRecv(p) ==
    /\ ppc[p] = "waitReply"
    /\ ReplyReady(preq[p])
    /\ ppc' = [ppc EXCEPT ![p] = "done"]
    /\ pret' = [pret EXCEPT ![p] = SubmitReply(rbuf[preq[p]])]
    /\ rbuf' = [rbuf EXCEPT ![preq[p]] = <<>>]
    /\ pinq' = [pinq EXCEPT ![p] = preq[p] \in Range(queue)]
    /\ UNCHANGED <<chanVars, cancelled, reqVars, rclosed, nwrite, nclose, wac, pkind, pctx, preq, pcanc, consVars, logVars>>

\* A reply wait that has no ctx.Done() case: res, ok := <-resultChan alone.
SubmitRecvUncancelable(p) ==
    /\ FALSE
    /\ UNCHANGED vars

\* Submit, second select, case <-ctx.Done()
SubmitRecvCanceled(p) ==
    /\ ppc[p] = "waitReply"
    /\ Done(pctx[p])
    /\ ppc' = [ppc EXCEPT ![p] = "done"]
    /\ pret' = [pret EXCEPT ![p] = result(NilVal, ErrCanceled)]
    /\ pinq' = [pinq EXCEPT ![p] = preq[p] \in Range(queue)]
    /\ UNCHANGED <<chanVars, cancelled, reqVars, replyVars, pkind, pctx, preq, pcanc, consVars, logVars>>

\* SubmitNoWait(ctx, f) is called; its request has result: nil.
CallSubmitNoWait(p, c) ==
    /\ NewCall(p, c)
    /\ ppc' = [ppc EXCEPT ![p] = "enqueue"]
    /\ pkind' = [pkind EXCEPT ![p] = "SubmitNoWait"]
    /\ pctx' = [pctx EXCEPT ![p] = c]
    /\ preq' = [preq EXCEPT ![p] = nextId]
    /\ pret' = [pret EXCEPT ![p] = NoRet]
    /\ pcanc' = [pcanc EXCEPT ![p] = cancelled[c]]
    /\ pinq' = [pinq EXCEPT ![p] = FALSE]
    /\ rhas' = [rhas EXCEPT ![nextId] = FALSE]
    /\ rctx' = [rctx EXCEPT ![nextId] = c]
    /\ nextId' = nextId + 1
    /\ UNCHANGED <<chanVars, cancelled, replyVars, consVars, logVars>>

\* A SubmitNoWait that looks at ctx once more after the send.
NoWaitSentChecked(c) ==
    IF Done(c) THEN result(NilVal, ErrCanceled) ELSE result(NilVal, ErrNil)

\* What SubmitNoWait returns after its select took the send: nil.
NoWaitSent(c) == result(NilVal, ErrNil)

\* SubmitNoWait, case e <- &Request{...}, then return nil
NoWaitSend(p) ==
    /\ ppc[p] = "enqueue" /\ pkind[p] = "SubmitNoWait"
    /\ ChanSend(preq[p])
    /\ ppc' = [ppc EXCEPT ![p] = "done"]
    /\ pret' = [pret EXCEPT ![p] = NoWaitSent(pctx[p])]
    /\ pinq' = [pinq EXCEPT ![p] = preq[p] \in Range(queue')]
    /\ UNCHANGED <<cap, eclosed, closedWith, cancelled, reqVars, replyVars, pkind, pctx, preq, pcanc, fret, oret>>

\* SubmitNoWait, case <-ctx.Done()
NoWaitCanceled(p) ==
    /\ ppc[p] = "enqueue" /\ pkind[p] = "SubmitNoWait"
    /\ Done(pctx[p])
    /\ ppc' = [ppc EXCEPT ![p] = "done"]
    /\ pret' = [pret EXCEPT ![p] = result(NilVal, ErrCanceled)]
    /\ pinq' = [pinq EXCEPT ![p] = preq[p] \in Range(queue)]
    /\ UNCHANGED <<chanVars, cancelled, reqVars, replyVars, pkind, pctx, preq, pcanc, consVars, logVars>>

\* ---------------------------------------------------------------- consumers
\* Each consumer goroutine keeps to one role and one context.
NewRun(k, kind, c) ==
    /\ cpc[k] \in {"idle", "done"}
    /\ ckind[k] \in {"none", kind}
    /\ cctx[k] \in {NoCtx, c}
    /\ \A c2 \in Ctx \ (CallerCtx \cup {c}) : ~cancelled[c2]

\* e.RunOnce(ctx) is called.
CallRunOnce(k, c) ==
    /\ NewRun(k, "RunOnce", c)
    /\ cpc' = [cpc EXCEPT ![k] = "select"]
    /\ ckind' = [ckind EXCEPT ![k] = "RunOnce"]
    /\ cctx' = [cctx EXCEPT ![k] = c]
    /\ cerr' = [cerr EXCEPT ![k] = "none"]
    /\ ccanc' = [ccanc EXCEPT ![k] = cancelled[c]]
    /\ cdeq' = [cdeq EXCEPT ![k] = 0]
    /\ creq' = [creq EXCEPT ![k] = NoReq]
    /\ cval' = [cval EXCEPT ![k] = NoRet]
    /\ cjoin' = [cjoin EXCEPT ![k] = NoJoin]
    /\ UNCHANGED <<chanVars, cancelled, reqVars, replyVars, prodVars, logVars, cfcanc>>

\* e.RunLoop(ctx) is called, and calls RunOnce.
CallRunLoop(k, c) ==
    /\ NewRun(k, "RunLoop", c)
    /\ cpc' = [cpc EXCEPT ![k] = "select"]
    /\ ckind' = [ckind EXCEPT ![k] = "RunLoop"]
    /\ cctx' = [cctx EXCEPT ![k] = c]
    /\ cerr' = [cerr EXCEPT ![k] = "none"]
    /\ ccanc' = [ccanc EXCEPT ![k] = cancelled[c]]
    /\ cdeq' = [cdeq EXCEPT ![k] = 0]
    /\ creq' = [creq EXCEPT ![k] = NoReq]
    /\ cval' = [cval EXCEPT ![k] = NoRet]
    /\ cjoin' = [cjoin EXCEPT ![k] = NoJoin]
    /\ UNCHANGED <<chanVars, cancelled, reqVars, replyVars, prodVars, logVars, cfcanc>>

\* RunOnce, case r, ok := <-e with ok: RunOneRequest(ctx, r) up to r.Func(joinedCtx)
RunOnceRecv(k) ==
    /\ cpc[k] = "select"
    /\ CanRecv
    /\ TakeRequest(k, ChanRecv.req)
    /\ queue' = ChanRecv.rest
    /\ UNCHANGED <<cap, eclosed, closedWith, cancelled, reqVars, replyVars, prodVars, enqLog, fret, oret>>

\* RunOnce, case r, ok := <-e with !ok: return io.EOF
RunOnceEOF(k) ==
    /\ cpc[k] = "select"
    /\ RecvClosed
    /\ cpc' = [cpc EXCEPT ![k] = LoopPc(ckind[k], ErrEOF)]
    /\ cerr' = [cerr EXCEPT ![k] = LoopErr(ckind[k], ErrEOF)]
    /\ UNCHANGED <<chanVars, cancelled, reqVars, replyVars, prodVars, logVars,
                   ckind, cctx, creq, cval, cjoin, cfcanc, ccanc, cdeq>>

\* RunOnce, case <-ctx.Done(): return context.Canceled
RunOnceCanceled(k) ==
    /\ cpc[k] = "select"
    /\ Done(cctx[k])
    /\ cpc' = [cpc EXCEPT ![k] = LoopPc(ckind[k], ErrCanceled)]
    /\ cerr' = [cerr EXCEPT ![k] = LoopErr(ckind[k], ErrCanceled)]
    /\ UNCHANGED <<chanVars, cancelled, reqVars, replyVars, prodVars, logVars,
                   ckind, cctx, creq, cval, cjoin, cfcanc, ccanc, cdeq>>

\* A RunOneRequest that, for a request without a reply slot, returns the
\* error of the work function.
FuncReturnPropagates(k) ==
    /\ cpc[k] = "running"
    /\ \E res \in FuncResults(creq[k]) :
         /\ fret' = [fret EXCEPT ![creq[k]] = res]
         /\ IF rhas[creq[k]]
            THEN /\ cpc' = [cpc EXCEPT ![k] = "deliver"]
                 /\ cval' = [cval EXCEPT ![k] = res]
                 /\ cjoin' = [cjoin EXCEPT ![k] =
                        IF @.obj = "joined" THEN [@ EXCEPT !.released = TRUE] ELSE @]
                 /\ cfcanc' = [cfcanc EXCEPT ![k] = cancelled[cctx[k]]]
                 /\ UNCHANGED <<cerr, creq, oret>>
            ELSE /\ cpc' = [cpc EXCEPT ![k] = LoopPc(ckind[k], res.err)]
                 /\ cerr' = [cerr EXCEPT ![k] = LoopErr(ckind[k], res.err)]
                 /\ oret' = [oret EXCEPT ![creq[k]] = res.err]
                 /\ creq' = [creq EXCEPT ![k] = NoReq]
                 /\ cval' = [cval EXCEPT ![k] = NoRet]
                 /\ cjoin' = [cjoin EXCEPT ![k] = NoJoin]
                 /\ UNCHANGED cfcanc
    /\ UNCHANGED <<chanVars, cancelled, reqVars, replyVars, prodVars,
                   enqLog, invLog, rkctx, ckind, cctx, ccanc, cdeq>>

\* RunOneRequest: r.Func returns (val, err); joinedCancel(); and with
\* r.result == nil, return nil.
FuncReturn(k) ==
    /\ cpc[k] = "running"
    /\ \E res \in FuncResults(creq[k]) :
         /\ fret' = [fret EXCEPT ![creq[k]] = res]
         /\ IF rhas[creq[k]]
            THEN /\ cpc' = [cpc EXCEPT ![k] = "deliver"]
                 /\ cval' = [cval EXCEPT ![k] = res]
                 /\ cjoin' = [cjoin EXCEPT ![k] =
                        IF @.obj = "joined" THEN [@ EXCEPT !.released = TRUE] ELSE @]
                 /\ cfcanc' = [cfcanc EXCEPT ![k] = cancelled[cctx[k]]]
                 /\ UNCHANGED <<cerr, creq, oret>>
            ELSE /\ cpc' = [cpc EXCEPT ![k] = LoopPc(ckind[k], ErrNil)]
                 /\ cerr' = [cerr EXCEPT ![k] = LoopErr(ckind[k], ErrNil)]
                 /\ oret' = [oret EXCEPT ![creq[k]] = ErrNil]
                 /\ creq' = [creq EXCEPT ![k] = NoReq]
                 /\ cval' = [cval EXCEPT ![k] = NoRet]
                 /\ cjoin' = [cjoin EXCEPT ![k] = NoJoin]
                 /\ UNCHANGED cfcanc
    /\ UNCHANGED <<chanVars, cancelled, reqVars, replyVars, prodVars,
                   enqLog, invLog, rkctx, ckind, cctx, ccanc, cdeq>>

\* A reply channel made without a buffer: a send needs the caller to be in its
\* receive.
ReplyCanSendUnbuffered(r) ==
    rclosed[r] \/ \E p \in Producers : ppc[p] = "waitReply" /\ preq[p] = r

\* A send on the reply channel of r is ready: room in its buffer of one (or
\* the channel is closed, and the send panics).
ReplyCanSend(r) == Len(rbuf[r]) < 1 \/ rclosed[r]

\* RunOneRequest, select, case r.result <- &result{val, err}
DeliverSend(k) ==
    /\ cpc[k] = "deliver"
    /\ ReplyCanSend(creq[k])
    /\ IF rclosed[creq[k]]
       THEN /\ cpc' = [cpc EXCEPT ![k] = "panicked"]
            /\ UNCHANGED rbuf
       ELSE /\ cpc' = [cpc EXCEPT ![k] = "sent"]
            /\ rbuf' = [rbuf EXCEPT ![creq[k]] = Append(@, cval[k])]
    /\ nwrite' = [nwrite EXCEPT ![creq[k]] = @ + 1]
    /\ wac' = [wac EXCEPT ![creq[k]] = @ \/ rclosed[creq[k]]]
    /\ UNCHANGED <<chanVars, cancelled, reqVars, rclosed, nclose, prodVars, logVars,
                   ckind, cctx, creq, cval, cjoin, cerr, cfcanc, ccanc, cdeq>>

\* A RunOneRequest whose select watches r.Context in place of its own ctx.
DeliverAbandonOnCaller(k) ==
    /\ cpc[k] = "deliver"
    /\ Done(rctx[creq[k]])
    /\ cpc' = [cpc EXCEPT ![k] = "abandoned"]
    /\ UNCHANGED <<chanVars, cancelled, reqVars, replyVars, prodVars, logVars,
                   ckind, cctx, creq, cval, cjoin, cerr, cfcanc, ccanc, cdeq>>

\* RunOneRequest, select, case <-ctx.Done(): return context.Canceled
DeliverAbandon(k) ==
    /\ cpc[k] = "deliver"
    /\ Done(cctx[k])
    /\ cpc' = [cpc EXCEPT ![k] = "abandoned"]
    /\ UNCHANGED <<chanVars, cancelled, reqVars, replyVars, prodVars, logVars,
                   ckind, cctx, creq, cval, cjoin, cerr, cfcanc, ccanc, cdeq>>

\* A RunOneRequest that returns nil on both ways out of its select.
DeliverErrAlwaysNil(pc) == ErrNil

\* What RunOneRequest returns after its select.
DeliverErr(pc) == IF pc = "sent" THEN ErrNil ELSE ErrCanceled

\* A defer that leaves the reply channel open.
NoCloseReply(r) == UNCHANGED <<rclosed, nclose>>

\* close(r.result)
CloseReply(r) ==
    /\ rclosed' = [rclosed EXCEPT ![r] = TRUE]
    /\ nclose' = [nclose EXCEPT ![r] = @ + 1]

\* RunOneRequest returns: the deferred close(r.result) runs, its locals go
\* out of scope, and RunOnce returns what RunOneRequest returned.
DeferredClose(k) ==
    /\ cpc[k] \in {"sent", "abandoned"}
    /\ CloseReply(creq[k])
    /\ cpc' = [cpc EXCEPT ![k] = LoopPc(ckind[k], DeliverErr(cpc[k]))]
    /\ cerr' = [cerr EXCEPT ![k] = LoopErr(ckind[k], DeliverErr(cpc[k]))]
    /\ oret' = [oret EXCEPT ![creq[k]] = DeliverErr(cpc[k])]
    /\ creq' = [creq EXCEPT ![k] = NoReq]
    /\ cval' = [cval EXCEPT ![k] = NoRet]
    /\ cjoin' = [cjoin EXCEPT ![k] = NoJoin]
    /\ cfcanc' = [cfcanc EXCEPT ![k] = FALSE]
    /\ UNCHANGED <<chanVars, cancelled, reqVars, rbuf, nwrite, wac, prodVars,
                   enqLog, invLog, fret, rkctx, ckind, cctx, ccanc, cdeq>>

\* TestBrokenResultChan's consumer goroutine starts: r := <-ex
CallBroken(k) ==
    /\ cpc[k] = "idle" /\ ckind[k] = "none"
    /\ \A c2 \in Ctx \ CallerCtx : ~cancelled[c2]
    /\ cpc' = [cpc EXCEPT ![k] = "brecv"]
    /\ ckind' = [ckind EXCEPT ![k] = "Broken"]
    /\ UNCHANGED <<chanVars, cancelled, reqVars, replyVars, prodVars, logVars,
                   cctx, creq, cval, cjoin, cerr, cfcanc, ccanc, cdeq>>

\* r := <-ex, from the buffer
BrokenRecv(k) ==
    /\ cpc[k] = "brecv"
    /\ CanRecv
    /\ TakeRequest(k, ChanRecv.req)
    /\ queue' = ChanRecv.rest
    /\ UNCHANGED <<cap, eclosed, closedWith, cancelled, reqVars, replyVars, prodVars, enqLog, fret, oret>>

\* close(r.result), without any send; closing a nil channel panics.
BrokenClose(k) ==
    /\ cpc[k] = "bclose"
    /\ IF rhas[creq[k]]
       THEN /\ CloseReply(creq[k])
            /\ cpc' = [cpc EXCEPT ![k] = "done"]
       ELSE /\ cpc' = [cpc EXCEPT ![k] = "panicked"]
            /\ UNCHANGED <<rclosed, nclose>>
    /\ UNCHANGED <<chanVars, cancelled, reqVars, rbuf, nwrite, wac, prodVars, logVars,
                   ckind, cctx, creq, cval, cjoin, cerr, cfcanc, ccanc, cdeq>>

\* ------------------------------------------------------------ specification
ProducerStep(p) ==
    \/ SubmitSend(p)
    \/ SubmitSendCanceled(p)
    \/ SubmitRecv(p)
    \/ SubmitRecvCanceled(p)
    \/ NoWaitSend(p)
    \/ NoWaitCanceled(p)

ConsumerStep(k) ==
    \/ RunOnceRecv(k)
    \/ RunOnceEOF(k)
    \/ RunOnceCanceled(k)
    \/ FuncReturn(k)
    \/ DeliverSend(k)
    \/ DeliverAbandon(k)
    \/ DeferredClose(k)

BrokenStep(k) ==
    \/ BrokenRecv(k)
    \/ BrokenClose(k)

\* The steps of producers PS and consumers KS, and of their environment.
NextOf(PS, KS) ==
    \/ \E c \in Ctx : Cancel(c)
    \/ CloseExecutor
    \/ \E p \in PS, c \in CallerCtx : CallSubmit(p, c)
    \/ \E p \in PS, c \in CallerCtx : CallSubmitNoWait(p, c)
    \/ \E p \in PS : ProducerStep(p)
    \/ \E k \in KS, c \in Ctx : CallRunOnce(k, c)
    \/ \E k \in KS, c \in Ctx : CallRunLoop(k, c)
    \/ \E k \in KS : ConsumerStep(k)
    \/ \E k \in KS : CallBroken(k)
    \/ \E k \in KS : BrokenStep(k)

\* One producer goroutine and one consumer goroutine.
Next == NextOf({"p1"}, {"k1"})

Spec == Init /\ [][Next]_vars

\* Goroutines that can run do run: a select with a ready case completes, and
\* a work function that was invoked returns.
FairSpec ==
    /\ Spec
    /\ WF_vars(ProducerStep("p1"))
    /\ WF_vars(ConsumerStep("k1"))

\* Several consumers: one producer goroutine, and two consumer goroutines that
\* run RunOnce or RunLoop on the same executor with a context of their own.
NextConsumers ==
    \/ \E c \in Ctx : Cancel(c)
    \/ CloseExecutor
    \/ \E c \in CallerCtx : CallSubmit("p1", c)
    \/ \E c \in CallerCtx : CallSubmitNoWait("p1", c)
    \/ ProducerStep("p1")
    \/ \E k \in Consumers, c \in Ctx \ CallerCtx : CallRunOnce(k, c)
    \/ \E k \in Consumers, c \in Ctx \ CallerCtx : CallRunLoop(k, c)
    \/ \E k \in Consumers : ConsumerStep(k)

SpecConsumers == Init /\ [][NextConsumers]_vars

\* Several callers: two producer goroutines in Submit, and two consumer
\* goroutines in RunLoop with a context of their own, so that two requests
\* are enqueued, run and answered at the same time.
NextSubmits ==
    \/ \E c \in Ctx : Cancel(c)
    \/ \E p \in Producers, c \in CallerCtx : CallSubmit(p, c)
    \/ \E p \in Producers : SubmitSend(p)
    \/ \E p \in Producers : SubmitSendCanceled(p)
    \/ \E p \in Producers : SubmitRecv(p)
    \/ \E p \in Producers : SubmitRecvCanceled(p)
    \/ \E k \in Consumers, c \in Ctx \ CallerCtx : CallRunLoop(k, c)
    \/ \E k \in Consumers : RunOnceRecv(k)
    \/ \E k \in Consumers : RunOnceCanceled(k)
    \/ \E k \in Consumers : FuncReturn(k)
    \/ \E k \in Consumers : DeliverSend(k)
    \/ \E k \in Consumers : DeliverAbandon(k)
    \/ \E k \in Consumers : DeferredClose(k)

SpecSubmits == Init /\ [][NextSubmits]_vars

\* ================================================================== claims
\* The context consumer k runs with is cancelled (a consumer keeps to one
\* context, so "never" is about that one).
ConsumerCanceled(k) == cctx[k] # NoCtx /\ cancelled[cctx[k]]

\* r was handed to RunOneRequest, and RunOneRequest has returned.
Returned(r) == rkctx[r] # NoCtx /\ \A k \in Consumers : creq[k] # r

\* C1: a request with a reply slot that is passed to RunOneRequest has its
\* slot closed at most once, written at most once and never after the close,
\* and once RunOneRequest has returned the slot is closed, exactly once.
C1_ReplySlotClosedOnce ==
    \A r \in Req :
        (rhas[r] /\ rkctx[r] # NoCtx) =>
            /\ nclose[r] <= 1
            /\ nwrite[r] <= 1
            /\ ~wac[r]
            /\ rclosed[r] = (nclose[r] = 1)
            /\ Returned(r) <=> (nclose[r] = 1)

\* Both ways out of RunOneRequest's select have been taken and have closed
\* the slot: a delivered result, and an abandoned delivery.
C1_Witness ==
    \E r1, r2 \in Req :
        /\ rhas[r1] /\ Returned(r1) /\ nwrite[r1] = 1 /\ rclosed[r1]
        /\ rhas[r2] /\ Returned(r2) /\ nwrite[r2] = 0 /\ rclosed[r2]

\* C2: a Submit whose context is not cancelled, and whose request RunOnce or
\* RunLoop ran under a context that is not cancelled, returns exactly the
\* (value, error) its work function returned.
C2_SubmitReturnsFuncResult ==
    \A p \in Producers :
        ( /\ ppc[p] = "done" /\ pkind[p] = "Submit"
          /\ ~cancelled[pctx[p]]
          /\ rkctx[preq[p]] # NoCtx
          /\ ~cancelled[rkctx[preq[p]]] )
        => /\ fret[preq[p]] \in FuncResults(preq[p])
           /\ pret[p] = fret[preq[p]]

\* Submit has returned a work function's value with a nil error, a consumer
\* and a caller with different contexts, neither cancelled.
C2_Witness ==
    \E p \in Producers :
        /\ ppc[p] = "done" /\ pkind[p] = "Submit"
        /\ ~cancelled[pctx[p]]
        /\ rkctx[preq[p]] \notin {NoCtx, pctx[p]}
        /\ ~cancelled[rkctx[preq[p]]]
        /\ pret[p] = result(40 + preq[p], ErrNil)

\* C3: once its context is cancelled, a Submit that is blocked on the enqueue
\* or on the reply returns, whatever the consumer does.
C3_CanceledSubmitReturns ==
    \A p \in Producers :
        ( /\ pkind[p] = "Submit"
          /\ ppc[p] \in {"enqueue", "waitReply"}
          /\ cancelled[pctx[p]] )
        ~> (ppc[p] = "done")

\* Submit has returned the cancellation error while its request sits in the
\* queue, dequeued by nobody.
C3_Witness ==
    \E p \in Producers :
        /\ ppc[p] = "done" /\ pkind[p] = "Submit"
        /\ cancelled[pctx[p]]
        /\ pret[p] = result(NilVal, ErrCanceled)
        /\ preq[p] \in Range(queue)

\* The fatal signal Submit's test expects.
Panic == "cgc: result channel closed without any results"

\* C4: a Submit that finds its reply slot closed with no result ever written
\* to it ends in the panic, not in an ordinary return.
C4_ClosedEmptySlotPanics ==
    \A p \in Producers :
        ( /\ ppc[p] = "done" /\ pkind[p] = "Submit"
          /\ ~cancelled[pctx[p]]
          /\ preq[p] \in Range(enqLog)
          /\ rclosed[preq[p]] /\ nwrite[preq[p]] = 0 )
        => pret[p].err = Panic

\* C5: a Submit or SubmitNoWait called with a cancelled context returns the
\* cancellation error, and its request is neither enqueued nor invoked.
C5_CanceledCallEnqueuesNothing ==
    \A p \in Producers :
        pcanc[p] =>
            /\ preq[p] \notin Range(enqLog)
            /\ preq[p] \notin Range(invLog)
            /\ ppc[p] = "done" => pret[p] = result(NilVal, ErrCanceled)

\* C6: a RunOnce or RunLoop called with a cancelled context dequeues nothing
\* and returns the cancellation error.
C6_CanceledRunDequeuesNothing ==
    \A k \in Consumers :
        (ckind[k] \in {"RunOnce", "RunLoop"} /\ ccanc[k]) =>
            /\ cdeq[k] = 0
            /\ cpc[k] \in {"select", "done"}
            /\ cpc[k] = "done" => cerr[k] = ErrCanceled

\* C7: a RunLoop that has returned nil found the executor closed and drained,
\* and every request that was in the queue at the close has been run.
C7_NilMeansDrained ==
    \A k \in Consumers :
        (ckind[k] = "RunLoop" /\ cpc[k] = "done" /\ cerr[k] = ErrNil) =>
            /\ eclosed /\ queue = <<>>
            /\ \A r \in Range(closedWith) : r \in Range(invLog) /\ fret[r] # NoRet

\* C7: with the executor closed and its context never cancelled, a running
\* RunLoop returns nil.
C7_ClosedRunLoopReturns ==
    \A k \in Consumers :
        []~ConsumerCanceled(k) =>
            ((eclosed /\ ckind[k] = "RunLoop" /\ cpc[k] # "done")
                ~> (cpc[k] = "done" /\ cerr[k] = ErrNil))

\* C7: the two together.
C7_ClosedRunLoopDrainsAndReturnsNil ==
    []C7_NilMeansDrained /\ C7_ClosedRunLoopReturns

\* RunLoop has returned nil after the executor was closed with two requests
\* pending.
C7_Witness ==
    \E k \in Consumers :
        /\ ckind[k] = "RunLoop" /\ cpc[k] = "done" /\ cerr[k] = ErrNil
        /\ ~cancelled[cctx[k]]
        /\ Len(closedWith) = 2

\* The consumers that have been started.
Started == {k \in Consumers : ckind[k] # "none"}

\* C8: with a single consumer running RunOnce or RunLoop, work functions are
\* invoked in the order the queue accepted their requests, and each has
\* returned before the next is invoked.
C8_InvokedInEnqueueOrder ==
    (Cardinality(Started) <= 1 /\ \A k \in Started : ckind[k] # "Broken") =>
        /\ Len(invLog) <= Len(enqLog)
        /\ invLog = SubSeq(enqLog, 1, Len(invLog))
        /\ \A i \in 1..(Len(invLog) - 1) : fret[invLog[i]] # NoRet

\* Two requests that were in the queue together have both been invoked.
C8_Witness ==
    /\ Len(closedWith) = 2
    /\ Len(invLog) = 2
    /\ \A r \in Range(closedWith) : fret[r] # NoRet

\* C9: a request leaves the queue only by being dequeued, which for RunOnce
\* and RunLoop is the invocation of its work function; cancelling a context
\* withdraws nothing.
C9_LeavesQueueInvoked ==
    \A r \in Req :
        (r \in Range(queue) /\ r \notin Range(queue')) =>
            \/ r \in Range(invLog')
            \/ \E k \in Consumers : ckind[k] = "Broken"

\* C9: a request in the queue is invoked by a running RunLoop whose context
\* is never cancelled.
C9_QueuedIsInvoked ==
    \A r \in Req : \A k \in Consumers :
        []~ConsumerCanceled(k) =>
            ((r \in Range(queue) /\ ckind[k] = "RunLoop" /\ cpc[k] # "done")
                ~> (r \in Range(invLog)))

\* C9: the two together.
C9_AcceptedRequestIsNotRetracted ==
    [][C9_LeavesQueueInvoked]_vars /\ C9_QueuedIsInvoked

\* Submit returned the cancellation error while its request sat in the queue,
\* and RunLoop has run the request since.
C9_Witness ==
    \E p \in Producers, k \in Consumers :
        /\ ppc[p] = "done" /\ pkind[p] = "Submit"
        /\ pret[p] = result(NilVal, ErrCanceled)
        /\ pinq[p] /\ cancelled[pctx[p]]
        /\ ckind[k] = "RunLoop" /\ ~cancelled[cctx[k]]
        /\ fret[preq[p]] = result(40 + preq[p], ErrNil)

Count(q, r) == Cardinality({i \in 1..Len(q) : q[i] = r})

\* C10: SubmitNoWait returns nil exactly when its request was accepted, once,
\* and the cancellation error exactly when it was not, whatever the work
\* function did; with room in the buffer it can return at once.
C10_NoWaitReportsEnqueueOnly ==
    \A p \in Producers :
        pkind[p] = "SubmitNoWait" =>
            /\ Count(enqLog, preq[p]) <= 1
            /\ ppc[p] = "enqueue" => preq[p] \notin Range(enqLog)
            /\ ppc[p] = "done" =>
                /\ pret[p] \in {result(NilVal, ErrNil), result(NilVal, ErrCanceled)}
                /\ (pret[p] = result(NilVal, ErrNil)) <=> (preq[p] \in Range(enqLog))
            /\ (ppc[p] = "enqueue" /\ CanBuffer) => ENABLED NoWaitSend(p)

\* SubmitNoWait has returned nil with a cancelled context while its request
\* waits in the buffer, its work function not run, no consumer about.
C10_Witness ==
    \E p \in Producers :
        /\ ppc[p] = "done" /\ pkind[p] = "SubmitNoWait"
        /\ pret[p] = result(NilVal, ErrNil)
        /\ cancelled[pctx[p]]
        /\ preq[p] \in Range(queue)
        /\ fret[preq[p]] = NoRet
        /\ Started = {}

\* C11: while r.Func runs, the context it was handed is ctx itself when ctx
\* and r.Context are the same object; otherwise it is a joined context, which
\* is done exactly when the consumer's or the caller's context is cancelled.
C11_FuncSeesEitherCancel ==
    \A k \in Consumers :
        cpc[k] = "running" =>
            IF cctx[k] = rctx[creq[k]]
            THEN /\ cjoin[k].obj = cctx[k]
                 /\ FuncDone(cjoin[k]) <=> cancelled[cctx[k]]
            ELSE /\ cjoin[k].obj = "joined"
                 /\ FuncDone(cjoin[k]) <=> (cancelled[cctx[k]] \/ cancelled[rctx[creq[k]]])

\* A work function runs under a consumer whose context is live, and sees the
\* cancellation of its caller's context.
C11_Witness ==
    \E k \in Consumers :
        /\ cpc[k] = "running"
        /\ cctx[k] # rctx[creq[k]]
        /\ ~cancelled[cctx[k]]
        /\ cancelled[rctx[creq[k]]]
        /\ FuncDone(cjoin[k])

\* A send on the executor channel can complete now: room in the buffer, or,
\* with no buffer, a consumer blocked in its receive.
C12_SendReady == Len(queue) < cap \/ (cap = 0 /\ \E k \in Consumers : Receiving(k))

\* C12: the queue never holds more than the n of NewBuffered(n); with no
\* consumer about exactly the accepted requests are queued; a producer at its
\* enqueue can complete it at once while there is room, and with a live
\* context and no room it can take no step at all.
C12_QueueWithinCapacity ==
    /\ Len(queue) <= cap
    /\ Started = {} => enqLog = queue
    /\ \A p \in Producers :
         ppc[p] = "enqueue" =>
            /\ C12_SendReady =>
                 IF pkind[p] = "Submit" THEN ENABLED SubmitSend(p) ELSE ENABLED NoWaitSend(p)
            /\ (~C12_SendReady /\ ~cancelled[pctx[p]]) => ~ENABLED ProducerStep(p)

\* C12: on an executor from New() a request is accepted only by being handed
\* to a consumer that was blocked in its receive.
C12_HandoffOnly ==
    (cap = 0 /\ enqLog' # enqLog) =>
        /\ queue' = <<>>
        /\ \E k \in Consumers :
             /\ Receiving(k)
             /\ creq'[k] = enqLog'[Len(enqLog')]

\* C12: the two together.
C12_CapacityIsBufferLength ==
    []C12_QueueWithinCapacity /\ [][C12_HandoffOnly]_vars

\* With no consumer about, a buffered executor is full and a further producer
\* with a live context waits at its enqueue.
C12_Witness ==
    \E p \in Producers :
        /\ Started = {}
        /\ cap > 0 /\ Len(queue) = cap
        /\ ppc[p] = "enqueue" /\ ~cancelled[pctx[p]]

\* C13: a RunOnce that has returned gave the cancellation error or io.EOF
\* only if it dequeued nothing, io.EOF only on a closed and drained executor,
\* and nil whenever it dequeued a request.
C13_RunOnceThreeOutcomes ==
    \A k \in Consumers :
        (ckind[k] = "RunOnce" /\ cpc[k] = "done") =>
            /\ cerr[k] \in {ErrNil, ErrCanceled, ErrEOF}
            /\ cerr[k] = ErrCanceled => cdeq[k] = 0
            /\ cerr[k] = ErrEOF => (cdeq[k] = 0 /\ eclosed /\ queue = <<>>)
            /\ cdeq[k] > 0 => cerr[k] = ErrNil

\* C14: once the work function has returned, the send of the result is ready
\* whatever the caller does and whether or not the consumer's context is
\* cancelled, the deferred close can run, and the send never hits a closed
\* slot.
C14_DeliveryReady ==
    \A k \in Consumers :
        /\ cpc[k] = "deliver" => (ENABLED DeliverSend(k) /\ ~rclosed[creq[k]])
        /\ cpc[k] \in {"sent", "abandoned"} => ENABLED DeferredClose(k)
        /\ ckind[k] \in {"RunOnce", "RunLoop"} => cpc[k] # "panicked"

\* C14: RunOneRequest returns once the work function has.
C14_RunOneRequestReturns ==
    \A k \in Consumers :
        (cpc[k] = "deliver") ~> (cpc[k] \notin {"deliver", "sent", "abandoned"})

\* C14: the two together.
C14_DeliveryNeverBlocks ==
    []C14_DeliveryReady /\ C14_RunOneRequestReturns

\* RunOneRequest has delivered and returned under a context that is not
\* cancelled, for a caller that had given up and never reads the slot.
C14_Witness ==
    \E p \in Producers :
        /\ ppc[p] = "done" /\ pkind[p] = "Submit"
        /\ pret[p] = result(NilVal, ErrCanceled)
        /\ rbuf[preq[p]] # <<>> /\ rclosed[preq[p]]
        /\ Returned(preq[p])
        /\ ~cancelled[rkctx[preq[p]]]

\* C15: once RunOneRequest, and so RunOnce, has returned nil for a request of
\* Submit, a caller whose own context is live finds the work function's
\* result in the slot and returns exactly it, whether or not the consumer's
\* context has been cancelled since.
C15_ConsumerCancelAfterExchange ==
    \A p \in Producers :
        ( /\ pkind[p] = "Submit"
          /\ preq[p] # NoReq
          /\ oret[preq[p]] = ErrNil
          /\ ~cancelled[pctx[p]] )
        => /\ ppc[p] \in {"waitReply", "done"}
           /\ ppc[p] = "waitReply" =>
                (rbuf[preq[p]] = <<fret[preq[p]]>> /\ ENABLED SubmitRecv(p))
           /\ ppc[p] = "done" => pret[p] = fret[preq[p]]

\* RunOnce returned nil, its context has been cancelled, and Submit, its own
\* context live, has returned the work function's value.
C15_Witness ==
    \E p \in Producers :
        /\ ppc[p] = "done" /\ pkind[p] = "Submit"
        /\ oret[preq[p]] = ErrNil
        /\ rkctx[preq[p]] # pctx[p]
        /\ cancelled[rkctx[preq[p]]]
        /\ ~cancelled[pctx[p]]
        /\ pret[p] = result(40 + preq[p], ErrNil)

\* C16: with two consumers on one executor, a request is accepted at most
\* once and invoked at most once, only after it was accepted; it is never in
\* the queue once it was invoked, and never held by two consumers.
C16_ConsumedExactlyOnce ==
    /\ \A r \in Req :
         /\ Count(enqLog, r) <= 1
         /\ Count(queue, r) <= 1
         /\ Count(invLog, r) <= 1
         /\ r \in Range(invLog) => (r \in Range(enqLog) /\ r \notin Range(queue))
         /\ r \in Range(enqLog) => (r \in Range(queue) <=> r \notin Range(invLog))
    /\ \A k1, k2 \in Consumers :
         (k1 # k2 /\ creq[k1] # NoReq) => creq[k1] # creq[k2]

\* Two consumers run the work functions of two requests at the same time.
C16_Witness ==
    /\ \A k \in Consumers : cpc[k] = "running"
    /\ Len(invLog) = 2

\* C17 as claimed: a RunOneRequest whose ctx was not cancelled when the work
\* function returned leaves its select by writing the result, and returns
\* nil.
C17_LiveAtFuncReturnDelivers ==
    \A k \in Consumers :
        (cpc[k] \in {"sent", "abandoned"} /\ ~cfcanc[k]) =>
            (cpc[k] = "sent" /\ DeliverErr(cpc[k]) = ErrNil)

\* C17, amended: RunOneRequest abandons delivery only with its ctx cancelled
\* at its select.  While ctx is live the abandoning case is not ready; for a
\* request with a reply slot it returns nil exactly when it wrote the result,
\* before the close, and context.Canceled exactly when it closed the slot
\* with nothing written, which needs ctx cancelled; for a request without a
\* slot it returns nil and no slot is written or closed.
C17_AbandonOnlyOnConsumerCancel ==
    /\ \A k \in Consumers :
         /\ (cpc[k] = "deliver" /\ ~cancelled[cctx[k]]) => ~ENABLED DeliverAbandon(k)
         /\ cpc[k] = "abandoned" => cancelled[cctx[k]]
    /\ \A r \in Req :
         rkctx[r] # NoCtx =>
            /\ Returned(r) <=> oret[r] # "none"
            /\ (Returned(r) /\ rhas[r]) =>
                 /\ oret[r] \in {ErrNil, ErrCanceled}
                 /\ rclosed[r] /\ ~wac[r]
                 /\ oret[r] = ErrNil <=> nwrite[r] = 1
                 /\ oret[r] = ErrCanceled <=> nwrite[r] = 0
                 /\ oret[r] = ErrCanceled => cancelled[rkctx[r]]
                 /\ ~cancelled[rkctx[r]] => (nwrite[r] = 1 /\ oret[r] = ErrNil)
            /\ (Returned(r) /\ ~rhas[r]) =>
                 /\ oret[r] = ErrNil
                 /\ nwrite[r] = 0 /\ nclose[r] = 0 /\ ~rclosed[r] /\ rbuf[r] = <<>>

\* RunOneRequest has returned context.Canceled for one request, its slot
\* closed and empty, and nil for another, its result written, both under a
\* context that is cancelled by now.
C17_Witness ==
    \E r1, r2 \in Req :
        /\ rhas[r1] /\ Returned(r1)
        /\ oret[r1] = ErrCanceled
        /\ rclosed[r1] /\ nwrite[r1] = 0
        /\ cancelled[rkctx[r1]]
        /\ rhas[r2] /\ Returned(r2)
        /\ oret[r2] = ErrNil /\ nwrite[r2] = 1

\* C18: a RunLoop that has returned gave context.Canceled with its context
\* cancelled, or nil with the executor closed and drained; and while its
\* context is live and the executor open, no returning case of its select is
\* ready.
C18_ReturnsOnlyOnCancelOrClose ==
    \A k \in Consumers :
        ckind[k] = "RunLoop" =>
            /\ cpc[k] = "done" =>
                 \/ cerr[k] = ErrCanceled /\ cancelled[cctx[k]]
                 \/ cerr[k] = ErrNil /\ eclosed /\ queue = <<>>
            /\ (cpc[k] = "select" /\ ~cancelled[cctx[k]] /\ ~eclosed) =>
                 (~ENABLED RunOnceCanceled(k) /\ ~ENABLED RunOnceEOF(k))
            /\ (cpc[k] # "done" /\ ~cancelled[cctx[k]] /\ ~eclosed) => cerr[k] = "none"

\* C18: a RunLoop whose context is cancelled returns.
C18_CanceledRunLoopReturns ==
    \A k \in Consumers :
        (ckind[k] = "RunLoop" /\ cpc[k] # "done" /\ ConsumerCanceled(k))
            ~> (cpc[k] = "done")

\* C18: the two together.
C18_RunLoopReturnsAfterCancel ==
    []C18_ReturnsOnlyOnCancelOrClose /\ C18_CanceledRunLoopReturns

\* A RunLoop that was called with a live context and ran a request has
\* returned the cancellation error, the executor still open.
C18_Witness ==
    \E k \in Consumers :
        /\ ckind[k] = "RunLoop" /\ cpc[k] = "done"
        /\ cerr[k] = ErrCanceled
        /\ ~ccanc[k] /\ cdeq[k] > 0
        /\ ~eclosed

\* C19: what RunOneRequest returns is decided by the delivery alone, never by
\* the error of the work function: nil, or context.Canceled for an abandoned
\* delivery under a cancelled context.  So a RunOnce that has returned gave
\* io.EOF only without having run anything, context.Canceled only with its
\* context cancelled, and nil after running a request under a live context;
\* and a RunLoop whose context is live on an open executor has not returned.
C19_FuncErrorIsOpaque ==
    /\ \A r \in Req :
         Returned(r) =>
            /\ oret[r] = (IF rhas[r] /\ nwrite[r] = 0 THEN ErrCanceled ELSE ErrNil)
            /\ oret[r] = ErrCanceled => cancelled[rkctx[r]]
    /\ \A k \in Consumers :
         /\ (ckind[k] = "RunOnce" /\ cpc[k] = "done") =>
              /\ cerr[k] = ErrEOF => (cdeq[k] = 0 /\ eclosed)
              /\ cerr[k] = ErrCanceled => cancelled[cctx[k]]
              /\ (cdeq[k] > 0 /\ ~cancelled[cctx[k]]) => cerr[k] = ErrNil
         /\ (ckind[k] = "RunLoop" /\ ~cancelled[cctx[k]] /\ ~eclosed) => cpc[k] # "done"

\* A RunLoop with a live context on an open executor runs its second request
\* after the work function of the first returned context.Canceled.
C19_Witness ==
    \E k \in Consumers :
        /\ ckind[k] = "RunLoop" /\ cpc[k] = "running"
        /\ ~cancelled[cctx[k]] /\ ~eclosed
        /\ creq[k] = 2
        /\ fret[1] = result(NilVal, ErrCanceled)

\* C20: with two callers in Submit at once, a Submit that has returned gave
\* either the cancellation error or what its own work function returned: a
\* value it returns is the value of its own request, and when it took a
\* result out of its slot that result is its own function's.
C20_SubmitGetsOwnResult ==
    \A p \in Producers :
        (ppc[p] = "done" /\ pkind[p] = "Submit") =>
            /\ pret[p] = result(NilVal, ErrCanceled) \/ pret[p] = fret[preq[p]]
            /\ pret[p].val # NilVal => pret[p] = result(40 + preq[p], ErrNil)
            /\ (nwrite[preq[p]] = 1 /\ rbuf[preq[p]] = <<>>) => pret[p] = fret[preq[p]]
            /\ \A q \in Producers \ {p} :
                 (preq[q] # NoReq /\ nwrite[preq[q]] = 1 /\ ppc[q] = "waitReply") =>
                    rbuf[preq[q]] = <<fret[preq[q]]>>

\* A Submit has returned the value of its own work function while the
\* request of another, earlier Submit call is still being run.
C20_Witness ==
    \E p, q \in Producers : \E k \in Consumers :
        /\ ppc[p] = "done" /\ pkind[p] = "Submit"
        /\ pret[p] = result(40 + preq[p], ErrNil)
        /\ ppc[q] = "waitReply" /\ preq[q] < preq[p]
        /\ cpc[k] = "running" /\ creq[k] = preq[q]

====
